---- MODULE Spec2Model ----
(***************************************************************************)
(* Connection-lifecycle state machine of tcp-comm: the responder           *)
(* (server/src/main.rs, Pico W) and the initiator (client/src/main.rs,     *)
(* ESP32-C3).  pc[r] is the program point of the session task of r: a loop *)
(* head or the .await it is suspended at; lpc is the program point of the  *)
(* initiator's `connection` task.  The network stack, the radio and the    *)
(* remote peer are the environment.                                        *)
(***************************************************************************)
EXTENDS Integers, Sequences, FiniteSets, TLC

VARIABLES
    active,      \* the roles whose program runs in this configuration
    pc,          \* pc[r]: the program point of the session task of r
    clock,       \* clock[r]: ms elapsed in the await r is suspended at
    socks,       \* socks[r][i]: socket slot i of the stack's StackResources<3>
    cur,         \* cur[r]: the slot held by the local `socket` (0: none)
    conn,        \* conn[r]: what the transport of the current socket has seen
    inb,         \* inb[r]: bytes sent to r that r has not read yet
    buf,         \* buf[r]: the scratch buffer `buf`
    wreq,        \* wreq[r]: the slice handed to the pending write_all (<<>>: none)
    out,         \* out[r]: the log lines the last step of r emitted
    configUp,    \* configUp[r]: stack.is_config_up()
    led,         \* the responder's indicator, control.gpio_set(0, _)
    led_status,  \* the responder's local `led_status`
    err_status,  \* the responder's `err.status` of the last failed join
    trips,       \* trips[r]: replies r has read on the current Session (capped)
    wifi,        \* wifi[r]: the state of the station interface of r
    lpc,         \* the program point of the initiator's `connection` task
    lclock,      \* ms elapsed in the timer the `connection` task is suspended at
    polls,       \* polls[r]: polls of the DHCP wait that returned false (capped)
    waits        \* waits[r]: 100 ms timers the DHCP wait has sat through (capped)

vars == <<active, pc, clock, socks, cur, conn, inb, buf, wreq, out,
          configUp, led, led_status, err_status, trips,
          wifi, lpc, lclock, polls, waits>>

\* the state of the link supervision
linkVars == <<wifi, lpc, lclock>>

\* the poll counters of the DHCP wait
pollVars == <<polls, waits>>

\* the state of the session task and of its stack
sessVars == <<socks, cur, conn, inb, buf, wreq, trips>>

Roles == {"initiator", "responder"}

Peer(r) == IF r = "initiator" THEN "responder" ELSE "initiator"

Min(a, b) == IF a < b THEN a ELSE b

(***************************************************************************)
(* Program constants.                                                      *)
(***************************************************************************)
EstablishTimeoutMs == 5000
IdleTimeoutMs == 5000
ConnectBackoffMs == 1000
ExchangeDelayMs == 1000
DhcpPollMs == 100
LinkBackoffMs == 5000
JoinLogThreshold == 16
StackSockets == 3

\* b"Hello"
Hello == <<72, 101, 108, 108, 111>>

\* bytes in flight to a peer before write_all stalls: one payload
NetCap == Len(Hello)

(***************************************************************************)
(* Bounds of the model.                                                    *)
(***************************************************************************)
\* length of the scratch buffer (stands for [0; 4096] and [0; 1024])
BufLen == 5
\* unread bytes an arbitrary peer may have queued towards the node
MaxPeerBytes == 2
\* granularity of the passage of time, in ms
TickMs == 2500
\* cap of the exchange counter
MaxTrips == 3
\* cap of the poll counters of one DHCP wait
MaxPolls == 3

\* byte chunks an arbitrary peer sends: "H", the two bytes of U+00E9, its
\* lead byte alone, 0xFF
PeerChunks == {<<72>>, <<195, 169>>, <<195>>, <<255>>}

\* err.status values of a failed join
StatusCodes == {0, 15, 16, 17}

(***************************************************************************)
(* core::str::from_utf8: whether the bytes are well-formed UTF-8.          *)
(***************************************************************************)
IsCont(b) == b >= 128 /\ b <= 191

RECURSIVE Utf8From(_, _)
Utf8From(s, i) ==
    IF i > Len(s) THEN TRUE
    ELSE LET b == s[i]
             has(k) == i + k <= Len(s)
         IN  IF b < 128 THEN Utf8From(s, i + 1)
             ELSE IF b >= 194 /\ b <= 223
                  THEN has(1) /\ IsCont(s[i + 1]) /\ Utf8From(s, i + 2)
             ELSE IF b >= 224 /\ b <= 239
                  THEN /\ has(2)
                       /\ IsCont(s[i + 1]) /\ IsCont(s[i + 2])
                       /\ (b = 224 => s[i + 1] >= 160)
                       /\ (b = 237 => s[i + 1] <= 159)
                       /\ Utf8From(s, i + 3)
             ELSE IF b >= 240 /\ b <= 244
                  THEN /\ has(3)
                       /\ IsCont(s[i + 1]) /\ IsCont(s[i + 2]) /\ IsCont(s[i + 3])
                       /\ (b = 240 => s[i + 1] >= 144)
                       /\ (b = 244 => s[i + 1] <= 143)
                       /\ Utf8From(s, i + 4)
             ELSE FALSE

Utf8Valid(s) == Utf8From(s, 1)

\* from_utf8(..).unwrap() accepting any bytes
DecodeUnchecked(s) == "ok"

\* from_utf8(&buf[..n]).unwrap(): the text, or a panic
Decode(s) == IF Utf8Valid(s) THEN "ok" ELSE "panic"

(***************************************************************************)
(* Sockets of the shared stack.                                            *)
(***************************************************************************)
FreeSock == [st |-> "free", timeout |-> 0]

FreeSlots(r) == {i \in 1..StackSockets : socks[r][i].st = "free"}

OpenSlots(r) == {i \in 1..StackSockets : socks[r][i].st = "open"}

PendingSlots(r) == {i \in 1..StackSockets : socks[r][i].st = "pending"}

LowestFree(r) == CHOOSE i \in FreeSlots(r) : \A j \in FreeSlots(r) : i <= j

\* a socket that leaves scope without being removed from the stack
DropLeak(ss, i) == ss

\* drop of the local `socket` at `continue`, `break` or the end of the body
Drop(ss, i) == [ss EXCEPT ![i] = FreeSock]

\* an established socket left without a timeout
SetTimeoutNone(s) == [s EXCEPT !.st = "open"]

\* accept/connect returned Ok(()): socket.set_timeout(Some(5 s))
SetTimeout(s) == [s EXCEPT !.st = "open", !.timeout = IdleTimeoutMs]

\* the whole scratch buffer instead of the bytes read
EchoAll(b, k) == b

\* &buf[..n]
EchoSlice(b, k) == SubSeq(b, 1, k)

\* socket.read(&mut buf) copying chunk c to the front of the buffer
ReadInto(b, c) == [i \in 1..Len(b) |-> IF i <= Len(c) THEN c[i] ELSE b[i]]

(***************************************************************************)
(* Log lines.                                                              *)
(***************************************************************************)
L(m) == [msg |-> m, text |-> <<>>]

LT(m, t) == [msg |-> m, text |-> t]

\* match stack.config_v4() { Some(value) => ..., None => ... }
ConfigLog(r) ==
    IF configUp[r]
    THEN <<L("Server Address"), L("Gateway"), L("DNS Server")>>
    ELSE <<L("Unable to Get the Adrress")>>

(***************************************************************************)
(* Time.                                                                   *)
(***************************************************************************)
\* the deadline of the await r is suspended at (0: none)
Deadline(r) ==
    CASE pc[r] = "establish" -> EstablishTimeoutMs
      [] pc[r] \in {"read", "write"} -> socks[r][cur[r]].timeout
      [] pc[r] = "backoff" -> ConnectBackoffMs
      [] pc[r] = "sleep" -> ExchangeDelayMs
      [] pc[r] = "dhcp_wait" -> DhcpPollMs
      [] OTHER -> 0

Expired(r) == Deadline(r) > 0 /\ clock[r] >= Deadline(r)

Init ==
    /\ active \in {{"initiator"}, {"responder"}}
    /\ pc = [r \in Roles |-> IF r = "responder" THEN "join" ELSE "dhcp"]
    /\ clock = [r \in Roles |-> 0]
    /\ socks = [r \in Roles |-> [i \in 1..StackSockets |-> FreeSock]]
    /\ cur = [r \in Roles |-> 0]
    /\ conn = [r \in Roles |-> "idle"]
    /\ inb = [r \in Roles |-> <<>>]
    /\ buf = [r \in Roles |-> [i \in 1..BufLen |-> 0]]
    /\ wreq = [r \in Roles |-> <<>>]
    /\ out = [r \in Roles |-> <<>>]
    /\ configUp = [r \in Roles |-> FALSE]
    /\ led = FALSE
    /\ led_status = FALSE
    /\ err_status = 0
    /\ trips = [r \in Roles |-> 0]
    /\ wifi = [r \in Roles |-> IF r = "responder" THEN "started" ELSE "connected"]
    /\ lpc = "wait_event"
    /\ lclock = 0
    /\ polls = [r \in Roles |-> 0]
    /\ waits = [r \in Roles |-> 0]

(***************************************************************************)
(* Responder: the join loop (server main, lines 135-149).                  *)
(***************************************************************************)
\* control.join(..).await returned Ok(_)
JoinOk ==
    /\ "responder" \in active
    /\ pc["responder"] = "join"
    /\ led' = TRUE
    /\ pc' = [pc EXCEPT !["responder"] = "dhcp"]
    /\ out' = [out EXCEPT !["responder"] = <<L("Waiting for DHCP...")>>]
    /\ wifi' = [wifi EXCEPT !["responder"] = "connected"]
    /\ UNCHANGED <<active, clock, socks, cur, conn, inb, buf, wreq,
                   configUp, led_status, err_status, trips>>
    /\ UNCHANGED <<lpc, lclock, pollVars>>

\* control.join(..).await returned Err(err) with err.status = s
JoinErr(s) ==
    /\ "responder" \in active
    /\ pc["responder"] = "join"
    /\ err_status' = s
    /\ pc' = [pc EXCEPT !["responder"] = "join_err"]
    /\ out' = [out EXCEPT !["responder"] = <<>>]
    /\ UNCHANGED <<active, clock, socks, cur, conn, inb, buf, wreq,
                   configUp, led, led_status, trips>>
    /\ UNCHANGED <<linkVars, pollVars>>

\* the threshold test off by one
JoinFailureShownLe(s) == s <= JoinLogThreshold

\* if err.status<16
JoinFailureShown(s) == s < JoinLogThreshold

\* the Err arm, then the next iteration's control.join
JoinRetry ==
    /\ "responder" \in active
    /\ pc["responder"] = "join_err"
    /\ IF JoinFailureShown(err_status)
       THEN /\ led' = FALSE
            /\ out' = [out EXCEPT !["responder"] =
                          <<LT("Join failed with error", <<err_status>>)>>]
       ELSE /\ led' = led
            /\ out' = [out EXCEPT !["responder"] = <<>>]
    /\ pc' = [pc EXCEPT !["responder"] = "join"]
    /\ UNCHANGED <<active, clock, socks, cur, conn, inb, buf, wreq,
                   configUp, led_status, err_status, trips>>
    /\ UNCHANGED <<linkVars, pollVars>>

(***************************************************************************)
(* Both roles: the wait for DHCP, then the first configuration read.       *)
(***************************************************************************)
\* the loop body left out: the poll spins without a timer
BusyPoll == "dhcp"

\* the loop left out: a poll that finds no configuration goes on
NoGate == "outer"

\* the body of the wait loop: Timer::after_millis(100).await
AfterFalsePoll == "dhcp_wait"

\* while !stack.is_config_up() { Timer::after_millis(100).await }
DhcpPoll(r) ==
    /\ r \in active
    /\ pc[r] = "dhcp"
    /\ IF configUp[r]
       THEN /\ pc' = [pc EXCEPT ![r] = "outer"]
            /\ out' = [out EXCEPT ![r] = <<L("DHCP is Now Up!")>> \o ConfigLog(r)]
            /\ polls' = [polls EXCEPT ![r] = 0]
            /\ waits' = [waits EXCEPT ![r] = 0]
       ELSE /\ pc' = [pc EXCEPT ![r] = AfterFalsePoll]
            /\ out' = [out EXCEPT ![r] = <<>>]
            /\ polls' = [polls EXCEPT ![r] = Min(@ + 1, MaxPolls)]
            /\ waits' = waits
    /\ clock' = [clock EXCEPT ![r] = 0]
    /\ UNCHANGED <<active, socks, cur, conn, inb, buf, wreq,
                   configUp, led, led_status, err_status, trips>>
    /\ UNCHANGED linkVars

\* the 100 ms timer of the DHCP poll fired
DhcpTimer(r) ==
    /\ r \in active
    /\ pc[r] = "dhcp_wait"
    /\ Expired(r)
    /\ pc' = [pc EXCEPT ![r] = "dhcp"]
    /\ clock' = [clock EXCEPT ![r] = 0]
    /\ out' = [out EXCEPT ![r] = <<>>]
    /\ waits' = [waits EXCEPT ![r] = Min(@ + 1, MaxPolls)]
    /\ UNCHANGED <<active, socks, cur, conn, inb, buf, wreq,
                   configUp, led, led_status, err_status, trips>>
    /\ UNCHANGED <<linkVars, polls>>

(***************************************************************************)
(* Both roles: the outer loop and Phase 1.                                 *)
(***************************************************************************)
\* an iteration without a configuration restarts the loop
SkipWithoutConfig(up) == IF up THEN "establish" ELSE "outer"

\* match stack.config_v4() { Some(..) => log, None => warn }: both arms fall
\* through to accept/connect
AfterConfigRead(up) == "establish"

\* the socket takes over the bytes the last one had not delivered
StaleRx(q) == q

\* TcpSocket::new(stack, &mut rx_buffer, &mut tx_buffer): the new socket's
\* receive ring is empty, whatever q the last socket left in rx_buffer
FreshRx(q) == <<>>

\* TcpSocket::new, the configuration read, then accept/connect is awaited
OuterLoop(r) ==
    /\ r \in active
    /\ pc[r] = "outer"
    /\ IF FreeSlots(r) = {}
       THEN \* SocketSet::add panics on a full set
            /\ pc' = [pc EXCEPT ![r] = "crashed"]
            /\ out' = [out EXCEPT ![r] = <<L("panic")>>]
            /\ UNCHANGED <<socks, cur, conn, inb, clock, trips>>
       ELSE /\ socks' = [socks EXCEPT ![r][LowestFree(r)] =
                            [st |-> "pending", timeout |-> 0]]
            /\ cur' = [cur EXCEPT ![r] = LowestFree(r)]
            /\ conn' = [conn EXCEPT ![r] = "idle"]
            /\ inb' = [inb EXCEPT ![r] = FreshRx(@)]
            /\ clock' = [clock EXCEPT ![r] = 0]
            /\ trips' = [trips EXCEPT ![r] = 0]
            /\ pc' = [pc EXCEPT ![r] = AfterConfigRead(configUp[r])]
            /\ out' = [out EXCEPT ![r] = ConfigLog(r) \o
                          <<L(IF r = "responder" THEN "Listening on TCP"
                                                 ELSE "Connecting to the server")>>]
    /\ UNCHANGED <<active, buf, wreq, configUp, led, led_status, err_status>>
    /\ UNCHANGED <<linkVars, pollVars>>

\* accept/connect returned Ok(()) within the 5 s
EstablishOk(r) ==
    /\ r \in active
    /\ pc[r] = "establish"
    /\ conn[r] = "up"
    /\ socks' = [socks EXCEPT ![r][cur[r]] = SetTimeout(@)]
    /\ clock' = [clock EXCEPT ![r] = 0]
    /\ IF r = "responder"
       THEN /\ led' = TRUE
            /\ pc' = [pc EXCEPT ![r] = "read"]
            /\ out' = [out EXCEPT ![r] = <<L("Received Connection")>>]
            /\ wreq' = wreq
       ELSE /\ led' = led
            /\ pc' = [pc EXCEPT ![r] = "write"]
            /\ out' = [out EXCEPT ![r] = <<L("Connected to Endpoint!")>>]
            /\ wreq' = [wreq EXCEPT ![r] = Hello]
    /\ UNCHANGED <<active, cur, conn, inb, buf, configUp, led_status,
                   err_status, trips>>
    /\ UNCHANGED <<linkVars, pollVars>>

\* the next program point after a non-timeout connect error, without the wait
NoBackoff(r) == "outer"

\* the next program point after a non-timeout accept/connect error
AfterEstablishErr(r) == IF r = "initiator" THEN "backoff" ELSE "outer"

\* accept/connect returned Err(e) within the 5 s
EstablishErr(r) ==
    /\ r \in active
    /\ pc[r] = "establish"
    /\ conn[r] = "rst"
    /\ clock' = [clock EXCEPT ![r] = 0]
    /\ pc' = [pc EXCEPT ![r] = AfterEstablishErr(r)]
    /\ IF r = "responder"
       THEN /\ led' = led_status
            /\ led_status' = ~led_status
            /\ out' = [out EXCEPT ![r] = <<L("Accept Error")>>]
       ELSE /\ UNCHANGED <<led, led_status>>
            /\ out' = [out EXCEPT ![r] = <<L("Connect Error")>>]
    /\ IF AfterEstablishErr(r) = "outer"
       THEN /\ socks' = [socks EXCEPT ![r] = Drop(@, cur[r])]
            /\ cur' = [cur EXCEPT ![r] = 0]
       ELSE UNCHANGED <<socks, cur>>
    /\ UNCHANGED <<active, conn, inb, buf, wreq, configUp, err_status, trips>>
    /\ UNCHANGED <<linkVars, pollVars>>

\* with_timeout returned Err(_): no result after 5 s
EstablishTimeout(r) ==
    /\ r \in active
    /\ pc[r] = "establish"
    /\ Expired(r)
    /\ clock' = [clock EXCEPT ![r] = 0]
    /\ pc' = [pc EXCEPT ![r] = "outer"]
    /\ out' = [out EXCEPT ![r] = <<L("No Connection after 5s")>>]
    /\ IF r = "responder"
       THEN /\ led' = led_status
            /\ led_status' = ~led_status
       ELSE UNCHANGED <<led, led_status>>
    /\ socks' = [socks EXCEPT ![r] = Drop(@, cur[r])]
    /\ cur' = [cur EXCEPT ![r] = 0]
    /\ UNCHANGED <<active, conn, inb, buf, wreq, configUp, err_status, trips>>
    /\ UNCHANGED <<linkVars, pollVars>>

\* initiator: the 1000 ms timer after a connect error fired; continue
BackoffDone(r) ==
    /\ r \in active
    /\ pc[r] = "backoff"
    /\ Expired(r)
    /\ clock' = [clock EXCEPT ![r] = 0]
    /\ pc' = [pc EXCEPT ![r] = "outer"]
    /\ out' = [out EXCEPT ![r] = <<>>]
    /\ socks' = [socks EXCEPT ![r] = Drop(@, cur[r])]
    /\ cur' = [cur EXCEPT ![r] = 0]
    /\ UNCHANGED <<active, conn, inb, buf, wreq, configUp, led, led_status,
                   err_status, trips>>
    /\ UNCHANGED <<linkVars, pollVars>>

(***************************************************************************)
(* Both roles: Phase 2, the inner loop.                                    *)
(***************************************************************************)
\* the initiator writes again as soon as it has logged the reply
NoExchangeDelay == "write"

\* the initiator's Ok(n) arm: println!, then Timer::after(1000 ms).await
AfterReply == "sleep"

\* socket.read(&mut buf) returned Ok(k), k > 0; then from_utf8(..).unwrap()
ReadData(r, k) ==
    /\ r \in active
    /\ pc[r] = "read"
    /\ conn[r] \in {"up", "fin"}
    /\ k \in 1..Min(Len(inb[r]), BufLen)
    /\ LET chunk == SubSeq(inb[r], 1, k)
           nbuf == ReadInto(buf[r], chunk)
       IN  /\ inb' = [inb EXCEPT ![r] = SubSeq(@, k + 1, Len(@))]
           /\ buf' = [buf EXCEPT ![r] = nbuf]
           /\ IF Decode(EchoSlice(nbuf, k)) = "panic"
              THEN /\ pc' = [pc EXCEPT ![r] = "crashed"]
                   /\ out' = [out EXCEPT ![r] = <<L("panic")>>]
                   /\ UNCHANGED <<wreq, clock, trips>>
              ELSE /\ clock' = [clock EXCEPT ![r] = 0]
                   /\ IF r = "responder"
                      THEN /\ pc' = [pc EXCEPT ![r] = "write"]
                           /\ out' = [out EXCEPT ![r] =
                                         <<LT("rxd", EchoSlice(nbuf, k))>>]
                           /\ wreq' = [wreq EXCEPT ![r] = EchoSlice(nbuf, k)]
                           /\ trips' = trips
                      ELSE /\ pc' = [pc EXCEPT ![r] = AfterReply]
                           /\ out' = [out EXCEPT ![r] =
                                         <<LT("println", EchoSlice(nbuf, k))>>]
                           /\ wreq' = wreq
                           /\ trips' = [trips EXCEPT ![r] = Min(@ + 1, MaxTrips)]
    /\ UNCHANGED <<active, socks, cur, conn, configUp, led, led_status, err_status>>
    /\ UNCHANGED <<linkVars, pollVars>>

\* Ok(0) treated as one more read
EofKeepsReading == "read"

\* Ok(0) => { ...; break }: the inner loop is left
AfterEof == "outer"

\* socket.read(&mut buf) returned Ok(0); break
ReadEof(r) ==
    /\ r \in active
    /\ pc[r] = "read"
    /\ conn[r] = "fin"
    /\ inb[r] = <<>>
    /\ clock' = [clock EXCEPT ![r] = 0]
    /\ pc' = [pc EXCEPT ![r] = AfterEof]
    /\ out' = [out EXCEPT ![r] = <<L("Read EOF")>>]
    /\ socks' = [socks EXCEPT ![r] = Drop(@, cur[r])]
    /\ cur' = [cur EXCEPT ![r] = 0]
    /\ UNCHANGED <<active, conn, inb, buf, wreq, configUp, led, led_status,
                   err_status, trips>>
    /\ UNCHANGED <<linkVars, pollVars>>

\* socket.read(&mut buf) returned Err(e): a reset, or the idle timeout; break
ReadErr(r) ==
    /\ r \in active
    /\ pc[r] = "read"
    /\ conn[r] = "rst" \/ Expired(r)
    /\ clock' = [clock EXCEPT ![r] = 0]
    /\ pc' = [pc EXCEPT ![r] = "outer"]
    /\ out' = [out EXCEPT ![r] = <<L("Read Error")>>]
    /\ socks' = [socks EXCEPT ![r] = Drop(@, cur[r])]
    /\ cur' = [cur EXCEPT ![r] = 0]
    /\ UNCHANGED <<active, conn, inb, buf, wreq, configUp, led, led_status,
                   err_status, trips>>
    /\ UNCHANGED <<linkVars, pollVars>>

\* socket.write_all(..) returned Ok(())
WriteOk(r) ==
    /\ r \in active
    /\ pc[r] = "write"
    /\ conn[r] \in {"up", "fin"}
    /\ Peer(r) \in active => Len(inb[Peer(r)]) + Len(wreq[r]) <= NetCap
    \* the bytes reach the peer's socket; a peer that is not modelled reads them at once
    /\ inb' = IF Peer(r) \in active
              THEN [inb EXCEPT ![Peer(r)] = @ \o wreq[r]]
              ELSE inb
    /\ clock' = [clock EXCEPT ![r] = 0]
    /\ pc' = [pc EXCEPT ![r] = "read"]
    /\ out' = [out EXCEPT ![r] = <<>>]
    /\ wreq' = [wreq EXCEPT ![r] = <<>>]
    /\ UNCHANGED <<active, socks, cur, conn, buf, configUp, led,
                   led_status, err_status, trips>>
    /\ UNCHANGED <<linkVars, pollVars>>

\* socket.write_all(..) returned Err(e): a reset, or the idle timeout; break
WriteErr(r) ==
    /\ r \in active
    /\ pc[r] = "write"
    /\ conn[r] = "rst" \/ Expired(r)
    /\ clock' = [clock EXCEPT ![r] = 0]
    /\ pc' = [pc EXCEPT ![r] = "outer"]
    /\ out' = [out EXCEPT ![r] = <<L("Write Error")>>]
    /\ socks' = [socks EXCEPT ![r] = Drop(@, cur[r])]
    /\ cur' = [cur EXCEPT ![r] = 0]
    /\ wreq' = [wreq EXCEPT ![r] = <<>>]
    /\ UNCHANGED <<active, conn, inb, buf, configUp, led, led_status,
                   err_status, trips>>
    /\ UNCHANGED <<linkVars, pollVars>>

\* initiator: the 1000 ms timer after the println fired; the next write_all
SleepDone(r) ==
    /\ r \in active
    /\ pc[r] = "sleep"
    /\ Expired(r)
    /\ clock' = [clock EXCEPT ![r] = 0]
    /\ pc' = [pc EXCEPT ![r] = "write"]
    /\ wreq' = [wreq EXCEPT ![r] = Hello]
    /\ out' = [out EXCEPT ![r] = <<>>]
    /\ UNCHANGED <<active, socks, cur, conn, inb, buf, configUp, led,
                   led_status, err_status, trips>>
    /\ UNCHANGED <<linkVars, pollVars>>

(***************************************************************************)
(* Environment: time, the DHCP client of the stack, the remote peer.       *)
(***************************************************************************)
\* time passes for the await r is suspended at, up to its deadline
Tick(r) ==
    /\ r \in active
    /\ Deadline(r) > 0
    /\ clock[r] < Deadline(r)
    /\ clock' = [clock EXCEPT ![r] = Min(@ + TickMs, Deadline(r))]
    /\ UNCHANGED <<active, pc, socks, cur, conn, inb, buf, wreq, out,
                   configUp, led, led_status, err_status, trips>>
    /\ UNCHANGED <<linkVars, pollVars>>

\* the stack obtains or loses its DHCP configuration
DhcpChange(r) ==
    /\ r \in active
    /\ pc[r] \notin {"join", "join_err", "crashed"}
    /\ configUp[r] \/ wifi[r] = "connected"
    /\ configUp' = [configUp EXCEPT ![r] = ~@]
    /\ UNCHANGED <<active, pc, clock, socks, cur, conn, inb, buf, wreq, out,
                   led, led_status, err_status, trips>>
    /\ UNCHANGED <<linkVars, pollVars>>

\* the peer completes the handshake of the pending accept/connect
PeerConnects(r) ==
    /\ active = {r}
    /\ pc[r] = "establish"
    /\ conn[r] = "idle"
    /\ conn' = [conn EXCEPT ![r] = "up"]
    /\ UNCHANGED <<active, pc, clock, socks, cur, inb, buf, wreq, out,
                   configUp, led, led_status, err_status, trips>>
    /\ UNCHANGED <<linkVars, pollVars>>

\* the pending accept/connect fails, or the peer resets the connection
PeerResets(r) ==
    /\ active = {r}
    /\ pc[r] \in {"establish", "read", "write", "sleep"}
    /\ conn[r] # "rst"
    /\ conn' = [conn EXCEPT ![r] = "rst"]
    /\ UNCHANGED <<active, pc, clock, socks, cur, inb, buf, wreq, out,
                   configUp, led, led_status, err_status, trips>>
    /\ UNCHANGED <<linkVars, pollVars>>

\* the peer closes its side of the connection
PeerCloses(r) ==
    /\ active = {r}
    /\ pc[r] \in {"read", "write", "sleep"}
    /\ conn[r] = "up"
    /\ conn' = [conn EXCEPT ![r] = "fin"]
    /\ UNCHANGED <<active, pc, clock, socks, cur, inb, buf, wreq, out,
                   configUp, led, led_status, err_status, trips>>
    /\ UNCHANGED <<linkVars, pollVars>>

\* the peer sends chunk c
PeerSends(r, c) ==
    /\ active = {r}
    /\ pc[r] \in {"read", "write", "sleep"}
    /\ conn[r] = "up"
    /\ Len(inb[r]) + Len(c) <= MaxPeerBytes
    /\ inb' = [inb EXCEPT ![r] = @ \o c]
    /\ UNCHANGED <<active, pc, clock, socks, cur, conn, buf, wreq, out,
                   configUp, led, led_status, err_status, trips>>
    /\ UNCHANGED <<linkVars, pollVars>>

\* both nodes run: the initiator's connect meets the responder's accept
Handshake ==
    /\ active = Roles
    /\ \A r \in Roles : pc[r] = "establish" /\ conn[r] = "idle"
    /\ conn' = [r \in Roles |-> "up"]
    /\ UNCHANGED <<active, pc, clock, socks, cur, inb, buf, wreq, out,
                   configUp, led, led_status, err_status, trips>>
    /\ UNCHANGED <<linkVars, pollVars>>

Next ==
    \/ JoinOk
    \/ \E s \in StatusCodes : JoinErr(s)
    \/ JoinRetry
    \/ \E r \in Roles : DhcpPoll(r)
    \/ \E r \in Roles : DhcpTimer(r)
    \/ \E r \in Roles : OuterLoop(r)
    \/ \E r \in Roles : EstablishOk(r)
    \/ \E r \in Roles : EstablishErr(r)
    \/ \E r \in Roles : EstablishTimeout(r)
    \/ \E r \in Roles : BackoffDone(r)
    \/ \E r \in Roles, k \in 1..BufLen : ReadData(r, k)
    \/ \E r \in Roles : ReadEof(r)
    \/ \E r \in Roles : ReadErr(r)
    \/ \E r \in Roles : WriteOk(r)
    \/ \E r \in Roles : WriteErr(r)
    \/ \E r \in Roles : SleepDone(r)
    \/ \E r \in Roles : Tick(r)
    \/ \E r \in Roles : DhcpChange(r)
    \/ \E r \in Roles : PeerConnects(r)
    \/ \E r \in Roles : PeerResets(r)
    \/ \E r \in Roles : PeerCloses(r)
    \/ \E r \in Roles, c \in PeerChunks : PeerSends(r, c)

Spec == Init /\ [][Next]_vars

(***************************************************************************)
(* The end-to-end scenario: an initiator and a responder, both past the    *)
(* wait for DHCP, over one byte stream on which nothing fails and no       *)
(* accept, connect, read or write comes near its 5 s; it is followed up to *)
(* the initiator's MaxTrips-th reply.                                      *)
(***************************************************************************)
InitE2E ==
    /\ active = Roles
    /\ pc = [r \in Roles |-> "outer"]
    /\ clock = [r \in Roles |-> 0]
    /\ socks = [r \in Roles |-> [i \in 1..StackSockets |-> FreeSock]]
    /\ cur = [r \in Roles |-> 0]
    /\ conn = [r \in Roles |-> "idle"]
    /\ inb = [r \in Roles |-> <<>>]
    /\ buf = [r \in Roles |-> [i \in 1..BufLen |-> 0]]
    /\ wreq = [r \in Roles |-> <<>>]
    /\ out = [r \in Roles |-> <<>>]
    /\ configUp = [r \in Roles |-> TRUE]
    /\ led = TRUE
    /\ led_status = FALSE
    /\ err_status = 0
    /\ trips = [r \in Roles |-> 0]
    /\ wifi = [r \in Roles |-> "connected"]
    /\ lpc = "wait_event"
    /\ lclock = 0
    /\ polls = [r \in Roles |-> 0]
    /\ waits = [r \in Roles |-> 0]

NextE2E ==
    \/ \E r \in Roles : OuterLoop(r)
    \/ Handshake
    \/ \E r \in Roles : EstablishOk(r)
    \/ \E r \in Roles, k \in 1..BufLen : trips[r] < MaxTrips /\ ReadData(r, k)
    \/ \E r \in Roles : WriteOk(r)
    \/ \E r \in Roles : SleepDone(r)
    \/ \E r \in Roles : pc[r] = "sleep" /\ Tick(r)

SpecE2E == InitE2E /\ [][NextE2E]_vars

(***************************************************************************)
(* Initiator: the `connection` task (client, lines 52-87).  Its steps run  *)
(* from one .await to the next; the radio changes wifi between them.       *)
(***************************************************************************)
\* everything the link supervision leaves alone
taskVars == <<active, pc, clock, out, configUp, led, led_status, err_status,
              sessVars, pollVars>>

\* matches!(controller.is_started(), Ok(true))
IsStarted(w) == w \in {"started", "connected", "disconnected"}

\* the is_started test, then start_async or connect_async is awaited
StartOrConnect(w) == IF IsStarted(w) THEN "connecting" ELSE "starting"

\* the StaConnected arm left out: the task never waits for the disconnect
NoSupervision(w) == StartOrConnect(w)

\* match wifi_state() { StaConnected => wait_for_event(StaDisconnected).await .. }
AtLoopTop(w) == IF w = "connected" THEN "wait_event" ELSE StartOrConnect(w)

\* the Err arm without its timer
RetryAtOnce == "loop"

\* Err(e) => { .. Timer::after(Duration::from_millis(5000)).await }
AfterConnectErr == "retry"

\* one pass from the head of the loop to the first .await it reaches
LinkLoop ==
    /\ "initiator" \in active
    /\ lpc = "loop"
    /\ lpc' = AtLoopTop(wifi["initiator"])
    /\ lclock' = 0
    /\ UNCHANGED <<wifi, taskVars>>

\* wait_for_event(StaDisconnected) returned; the 5000 ms timer is awaited
LinkEvent ==
    /\ "initiator" \in active
    /\ lpc = "wait_event"
    /\ wifi["initiator"] = "disconnected"
    /\ lpc' = "delay"
    /\ lclock' = 0
    /\ UNCHANGED <<wifi, taskVars>>

\* the timer after the disconnect fired; the is_started test follows
LinkDelayDone ==
    /\ "initiator" \in active
    /\ lpc = "delay"
    /\ lclock >= LinkBackoffMs
    /\ lpc' = StartOrConnect(wifi["initiator"])
    /\ lclock' = 0
    /\ UNCHANGED <<wifi, taskVars>>

\* start_async().await returned Ok; connect_async is awaited
StartOk ==
    /\ "initiator" \in active
    /\ lpc = "starting"
    /\ wifi' = [wifi EXCEPT !["initiator"] = "started"]
    /\ lpc' = "connecting"
    /\ UNCHANGED <<lclock, taskVars>>

\* start_async().await returned Err: unwrap() panics
StartErr ==
    /\ "initiator" \in active
    /\ lpc = "starting"
    /\ lpc' = "panicked"
    /\ UNCHANGED <<wifi, lclock, taskVars>>

\* connect_async().await returned Ok(_)
ConnectOk ==
    /\ "initiator" \in active
    /\ lpc = "connecting"
    /\ wifi' = [wifi EXCEPT !["initiator"] = "connected"]
    /\ lpc' = "loop"
    /\ UNCHANGED <<lclock, taskVars>>

\* connect_async().await returned Err(e)
ConnectErr ==
    /\ "initiator" \in active
    /\ lpc = "connecting"
    /\ wifi' = [wifi EXCEPT !["initiator"] = "disconnected"]
    /\ lpc' = AfterConnectErr
    /\ lclock' = 0
    /\ UNCHANGED taskVars

\* the timer of the Err arm fired
RetryDone ==
    /\ "initiator" \in active
    /\ lpc = "retry"
    /\ lclock >= LinkBackoffMs
    /\ lpc' = "loop"
    /\ lclock' = 0
    /\ UNCHANGED <<wifi, taskVars>>

\* time passes in a timer of the `connection` task
LinkTick ==
    /\ "initiator" \in active
    /\ lpc \in {"delay", "retry"}
    /\ lclock < LinkBackoffMs
    /\ lclock' = Min(lclock + TickMs, LinkBackoffMs)
    /\ UNCHANGED <<wifi, lpc, taskVars>>

\* the radio loses the association
LinkLost(r) ==
    /\ r \in active
    /\ wifi[r] = "connected"
    /\ wifi' = [wifi EXCEPT ![r] = "disconnected"]
    /\ UNCHANGED <<lpc, lclock, taskVars>>

(***************************************************************************)
(* Start-up and link supervision: each role from power-up, with the        *)
(* session task followed through its wait for DHCP.                        *)
(***************************************************************************)
InitLink ==
    /\ active \in {{"initiator"}, {"responder"}}
    /\ pc = [r \in Roles |-> IF r = "responder" THEN "join" ELSE "dhcp"]
    /\ clock = [r \in Roles |-> 0]
    /\ socks = [r \in Roles |-> [i \in 1..StackSockets |-> FreeSock]]
    /\ cur = [r \in Roles |-> 0]
    /\ conn = [r \in Roles |-> "idle"]
    /\ inb = [r \in Roles |-> <<>>]
    /\ buf = [r \in Roles |-> [i \in 1..BufLen |-> 0]]
    /\ wreq = [r \in Roles |-> <<>>]
    /\ out = [r \in Roles |-> <<>>]
    /\ configUp = [r \in Roles |-> FALSE]
    /\ led = FALSE
    /\ led_status = FALSE
    /\ err_status = 0
    /\ trips = [r \in Roles |-> 0]
    /\ wifi = [r \in Roles |-> IF r = "responder" THEN "started" ELSE "stopped"]
    /\ lpc = "loop"
    /\ lclock = 0
    /\ polls = [r \in Roles |-> 0]
    /\ waits = [r \in Roles |-> 0]

\* a step of the `connection` task
LinkTask ==
    \/ LinkLoop
    \/ LinkEvent
    \/ LinkDelayDone
    \/ RetryDone

\* a step of the session task before its outer loop
StartUp ==
    \/ JoinRetry
    \/ \E r \in Roles : DhcpPoll(r)
    \/ \E r \in Roles : DhcpTimer(r)

NextLink ==
    \/ LinkLoop
    \/ LinkEvent
    \/ LinkDelayDone
    \/ StartOk
    \/ StartErr
    \/ ConnectOk
    \/ ConnectErr
    \/ RetryDone
    \/ LinkTick
    \/ \E r \in Roles : LinkLost(r)
    \/ JoinOk
    \/ \E s \in StatusCodes : JoinErr(s)
    \/ JoinRetry
    \/ \E r \in Roles : DhcpPoll(r)
    \/ \E r \in Roles : DhcpTimer(r)
    \/ \E r \in Roles : Tick(r)
    \/ \E r \in Roles : DhcpChange(r)

SpecLink == InitLink /\ [][NextLink]_vars

\* the executor runs every task that is ready and every armed timer fires;
\* what the radio, the access point and the DHCP server do is left open
SpecLinkFair ==
    /\ SpecLink
    /\ WF_vars(LinkTask)
    /\ WF_vars(LinkTick)
    /\ WF_vars(StartUp)
    /\ WF_vars(\E r \in Roles : Tick(r))

(***************************************************************************)
(* Vocabulary of the properties.                                           *)
(***************************************************************************)
AllFree == [i \in 1..StackSockets |-> FreeSock]

FailureLines == {"No Connection after 5s", "Accept Error", "Connect Error",
                 "Read Error", "Write Error", "Read EOF"}

\* this step is r leaving an accept/connect, read or write with a failure logged
Failed(r) ==
    /\ pc[r] \in {"establish", "read", "write"}
    /\ pc'[r] # pc[r]
    /\ out'[r] # <<>>
    /\ out'[r][1].msg \in FailureLines

\* this step is a read of r that returned a non-zero number of bytes
ReadStep(r) == pc[r] = "read" /\ Len(inb'[r]) < Len(inb[r])

\* the bytes that read returned
ReadChunk(r) == SubSeq(inb[r], 1, Len(inb[r]) - Len(inb'[r]))

\* s ends a repetition of the payload: it is a suffix of Hello \o ... \o Hello
EndsHellos(s) ==
    \A i \in 1..Len(s) :
        s[Len(s) - i + 1] = Hello[Len(Hello) - ((i - 1) % Len(Hello))]

\* the bytes between the initiator's writes and its reads, oldest first
Pipeline == inb["initiator"] \o wreq["responder"] \o inb["responder"]

(***************************************************************************)
(* C1: every recoverable Session failure (establish timeout or error, read *)
(* or write error, zero-length read) leaves no Session open and leads the  *)
(* session task to the outer loop (the initiator's connect error by way of *)
(* its backoff wait, and of nothing else); there the socket of the failed  *)
(* Session is released, and the outer loop always constructs the next      *)
(* Session: nothing counts the failures or runs out.                       *)
(***************************************************************************)
C1_FailureRestartsOuterLoop ==
    /\ [][\A r \in Roles :
            Failed(r) =>
                /\ pc'[r] \in {"outer", "backoff"}
                /\ OpenSlots(r)' = {}
                /\ pc'[r] = "outer" => socks'[r] = AllFree /\ cur'[r] = 0]_vars
    /\ [][\A r \in Roles :
            (pc[r] = "backoff" /\ pc'[r] # "backoff") =>
                pc'[r] = "outer" /\ socks'[r] = AllFree /\ cur'[r] = 0]_vars
    /\ [][\A r \in Roles :
            (pc[r] = "outer" /\ pc'[r] # "outer") =>
                /\ pc'[r] = "establish"
                /\ cur'[r] \in PendingSlots(r)']_vars

\* C1's case: a node back at the outer loop after a write error
C1_Witness ==
    \E r \in Roles : pc[r] = "outer" /\ out[r] = <<L("Write Error")>>

(***************************************************************************)
(* C2: in every state a node has at most one socket, so at most one open   *)
(* Session, and no accept/connect is pending while a Session is open.      *)
(***************************************************************************)
C2_OneSession ==
    \A r \in Roles :
        /\ Cardinality(OpenSlots(r)) <= 1
        /\ OpenSlots(r) # {} => PendingSlots(r) = {}
        /\ Cardinality(OpenSlots(r) \cup PendingSlots(r)) <= 1

\* C2's case: the responder accepting again after a Session in which it read
C2_Witness ==
    /\ pc["responder"] = "establish"
    /\ PendingSlots("responder") # {}
    /\ buf["responder"][1] # 0

(***************************************************************************)
(* C3: the session task never reaches a terminal state, whatever the       *)
(* network does and whatever bytes the peer sends.                         *)
(***************************************************************************)
C3_NeverTerminal == \A r \in Roles : pc[r] # "crashed"

(***************************************************************************)
(* C4: a read that returns a non-zero number of bytes that are not valid   *)
(* text takes the session task to the crashed state: no failure is logged, *)
(* no write is issued, and from then on the task stays crashed and no      *)
(* socket is constructed or released.                                      *)
(***************************************************************************)
C4_InvalidTextCrashes ==
    /\ [][\A r \in Roles :
            (ReadStep(r) /\ ~Utf8Valid(ReadChunk(r))) =>
                /\ pc'[r] = "crashed"
                /\ wreq'[r] = <<>>
                /\ socks'[r] = socks[r]
                /\ out'[r] = <<L("panic")>>]_vars
    /\ [][\A r \in Roles :
            pc[r] = "crashed" =>
                /\ pc'[r] = "crashed"
                /\ socks'[r] = socks[r]
                /\ wreq'[r] = wreq[r]
                /\ inb'[Peer(r)] = inb[Peer(r)]]_vars

\* C4's case: the responder crashed on a chunk that splits a character
C4_Witness ==
    /\ pc["responder"] = "crashed"
    /\ buf["responder"][1] = 195
    /\ wreq["responder"] = <<>>

(***************************************************************************)
(* C5: an accept/connect is abandoned when its 5000 ms have passed, and    *)
(* the outer loop follows with no timer wait in either role; a connect     *)
(* error of the initiator is followed by one 1000 ms timer wait, then the  *)
(* outer loop; an accept error of the responder is followed by the outer   *)
(* loop at once; the outer loop starts the next attempt without a wait.    *)
(***************************************************************************)
C5_EstablishDelays ==
    /\ [](\A r \in Roles : pc[r] = "establish" => clock[r] <= EstablishTimeoutMs)
    /\ [][\A r \in Roles :
            (pc[r] = "establish" /\ pc'[r] # "establish") =>
                \/ pc'[r] \in {"read", "write"}
                \/ /\ out'[r] = <<L("No Connection after 5s")>>
                   /\ clock[r] = EstablishTimeoutMs
                   /\ pc'[r] = "outer"
                \/ /\ r = "initiator"
                   /\ out'[r] = <<L("Connect Error")>>
                   /\ pc'[r] = "backoff"
                   /\ clock'[r] = 0
                   /\ Deadline(r)' = ConnectBackoffMs
                \/ /\ r = "responder"
                   /\ out'[r] = <<L("Accept Error")>>
                   /\ pc'[r] = "outer"]_vars
    /\ [][\A r \in Roles :
            (pc[r] = "backoff" /\ pc'[r] # "backoff") =>
                clock[r] = ConnectBackoffMs /\ pc'[r] = "outer"]_vars
    /\ [][\A r \in Roles :
            (pc[r] = "outer" /\ pc'[r] # "outer") =>
                pc'[r] = "establish" /\ clock'[r] = 0]_vars

\* C5's case: the initiator back at the outer loop after its backoff wait
C5_Witness ==
    /\ "initiator" \in active
    /\ pc["initiator"] = "outer"
    /\ out["initiator"] = <<>>

(***************************************************************************)
(* C6: every read and write is issued on an open socket whose 5000 ms      *)
(* timeout is armed; no such operation is pending for more than 5000 ms,   *)
(* and one that has stalled for 5000 ms can fail, which ends the Session.  *)
(***************************************************************************)
C6_IdleTimeoutArmed ==
    /\ [](\A r \in Roles :
            pc[r] \in {"read", "write"} =>
                /\ cur[r] # 0
                /\ socks[r][cur[r]] = [st |-> "open", timeout |-> IdleTimeoutMs]
                /\ clock[r] <= IdleTimeoutMs
                /\ clock[r] = IdleTimeoutMs =>
                       ENABLED (ReadErr(r) \/ WriteErr(r)))
    /\ [][\A r \in Roles :
            (pc[r] \in {"read", "write"} /\ pc'[r] = "outer") =>
                /\ out'[r][1].msg \in FailureLines
                /\ socks'[r] = AllFree]_vars

\* C6's case: a read that stalled on a connection nothing else was wrong with
C6_Witness ==
    \E r \in Roles :
        /\ pc[r] = "outer"
        /\ out[r] = <<L("Read Error")>>
        /\ conn[r] = "up"

(***************************************************************************)
(* C7: a zero-length read ends the Session and returns the session task to *)
(* the outer loop, not to a crash; the socket is released with it, and     *)
(* reads and writes are only ever pending on the open current socket.      *)
(***************************************************************************)
C7_EofEndsSession ==
    /\ [](\A r \in Roles :
            pc[r] \in {"read", "write", "sleep"} => cur[r] \in OpenSlots(r))
    /\ [][\A r \in Roles :
            (pc[r] = "read" /\ pc'[r] # "read" /\ out'[r] = <<L("Read EOF")>>) =>
                /\ conn[r] = "fin" /\ inb[r] = <<>>
                /\ pc'[r] = "outer"
                /\ cur'[r] = 0
                /\ OpenSlots(r)' = {}]_vars
    /\ [][\A r \in Roles :
            (pc[r] = "read" /\ conn[r] = "fin" /\ inb[r] = <<>>
                /\ pc'[r] # "read") => pc'[r] = "outer"]_vars

\* C7's case: a node back at the outer loop after a zero-length read
C7_Witness ==
    \E r \in Roles : pc[r] = "outer" /\ out[r] = <<L("Read EOF")>>

(***************************************************************************)
(* C8: on the responder, a read that returns valid text of 1..BufLen bytes *)
(* is followed by a write of exactly those bytes, in order, and the next   *)
(* read is issued only when that write has returned.                       *)
(***************************************************************************)
C8_EchoExact ==
    /\ [][(ReadStep("responder") /\ Utf8Valid(ReadChunk("responder"))) =>
            /\ pc'["responder"] = "write"
            /\ wreq'["responder"] = ReadChunk("responder")]_vars
    /\ [][(pc'["responder"] = "read" /\ pc["responder"] # "read") =>
            \/ pc["responder"] = "establish"
            \/ pc["responder"] = "write" /\ wreq'["responder"] = <<>>]_vars

\* C8's case: the echo of a two-byte character is pending
C8_Witness ==
    /\ pc["responder"] = "write"
    /\ wreq["responder"] = <<195, 169>>

Supervising(r) ==
    IF r = "responder"
    THEN pc[r] \in {"join", "join_err"}
    ELSE lpc \in {"loop", "wait_event", "delay", "starting", "connecting", "retry"}

\* C11: in both roles the link supervision never terminates, so a lost
\* association finds the link manager inside its loop, from where it
\* issues the next association attempt.
C11_LinkLossSupervised ==
    \A r \in active : wifi[r] = "disconnected" => Supervising(r)

\* C12: on the initiator a failed connect_async is followed by one timer of
\* 5000 ms, the timer runs its full time before the task goes on, and the
\* task then issues the next association attempt, after every failure.
C12_BackoffThenRetry ==
    /\ [][(lpc = "connecting" /\ lpc' # "connecting"
              /\ wifi'["initiator"] # "connected")
            => (lpc' = "retry" /\ lclock' = 0)]_vars
    /\ [][(lpc = "retry" /\ lpc' # "retry")
            => (lclock = 5000 /\ lpc' = "loop")]_vars
    /\ [][(lpc = "retry" /\ lpc' = "retry" /\ lclock' # lclock)
            => (lclock' > lclock /\ lclock' <= 5000)]_vars
    /\ (lpc = "retry") ~> (lpc = "connecting")

\* a failed attempt whose backoff has run out
C12_Witness ==
    /\ "initiator" \in active
    /\ lpc = "retry"
    /\ lclock = 5000
    /\ wifi["initiator"] = "disconnected"

\* C13: on the initiator, while the interface is connected the connection
\* task does nothing but suspend on the disconnect notification; it leaves
\* that wait only once the interface is disconnected, and it issues no
\* association attempt while the interface is connected.
C13_SuspendedWhileConnected ==
    /\ [](wifi["initiator"] = "connected" => lpc \in {"loop", "wait_event"})
    /\ [][(wifi["initiator"] = "connected" /\ lpc' # lpc)
            => (lpc = "loop" /\ lpc' = "wait_event")]_vars
    /\ [][(lpc = "wait_event" /\ lpc' # lpc)
            => (wifi["initiator"] = "disconnected" /\ lpc' = "delay")]_vars
    /\ [][(lpc' \in {"connecting", "starting"} /\ lpc' # lpc)
            => wifi["initiator"] # "connected"]_vars

\* the disconnect has been delivered to the suspended task
C13_Witness ==
    /\ "initiator" \in active
    /\ lpc = "wait_event"
    /\ wifi["initiator"] = "disconnected"

(***************************************************************************)
(* The wait for DHCP.                                                      *)
(***************************************************************************)
\* C14: a poll that finds the configuration not ready is followed by one
\* timer of 100 ms and the next poll, so after N such polls the wait has sat
\* through exactly N timers (N counted up to MaxPolls); the poll that finds
\* it ready ends the wait, and the configuration read that follows logs a
\* populated configuration.
C14_PollsAndWaits ==
    /\ [](\A r \in active :
            /\ pc[r] = "dhcp" => waits[r] = polls[r]
            /\ (pc[r] = "dhcp_wait" /\ waits[r] < MaxPolls)
                  => polls[r] = waits[r] + 1)
    /\ [][\A r \in active :
            (pc[r] = "dhcp" /\ pc'[r] # "dhcp")
                => IF configUp[r]
                   THEN /\ pc'[r] = "outer"
                        /\ out'[r] = <<L("DHCP is Now Up!"), L("Server Address"),
                                       L("Gateway"), L("DNS Server")>>
                   ELSE /\ pc'[r] = "dhcp_wait"
                        /\ clock'[r] = 0]_vars
    /\ [][\A r \in active :
            (pc[r] = "dhcp_wait" /\ pc'[r] # "dhcp_wait")
                => (clock[r] = 100 /\ pc'[r] = "dhcp")]_vars

\* two polls found the configuration not ready, two timers have run, and
\* the configuration is ready for the third poll
C14_Witness ==
    \E r \in active :
        /\ pc[r] = "dhcp"
        /\ configUp[r]
        /\ polls[r] = 2
        /\ waits[r] = 2

\* C15 as stated: the wait gates nothing; at its poll the session task can
\* go on to the outer loop whether or not the configuration is ready.
C15_WaitGatesNothing ==
    \A r \in active :
        pc[r] = "dhcp" => ENABLED (DhcpPoll(r) /\ pc'[r] = "outer")

\* C15, amended: the session task leaves the wait only by a poll that finds
\* the configuration ready, and only to the outer loop; from the outer loop
\* on, an establish attempt is made whatever the configuration has become.
C15_WaitGatesOnce ==
    /\ [][\A r \in active :
            (pc[r] \in {"dhcp", "dhcp_wait"} /\ pc'[r] \notin {"dhcp", "dhcp_wait"})
                => (configUp[r] /\ pc[r] = "dhcp" /\ pc'[r] = "outer")]_vars
    /\ [](\A r \in active :
            (pc[r] = "dhcp" /\ ~configUp[r])
                => ~ENABLED (DhcpPoll(r) /\ pc'[r] = "outer"))
    /\ [](\A r \in active :
            pc[r] = "outer" => ENABLED (OuterLoop(r) /\ pc'[r] = "establish"))

\* past the wait, an establish attempt is pending with no configuration
C15_Witness ==
    \E r \in active :
        /\ pc[r] = "establish"
        /\ ~configUp[r]
        /\ out[r][1] = L("Unable to Get the Adrress")

(***************************************************************************)
(* The outer loop.                                                         *)
(***************************************************************************)
\* the session task of r runs the head of its outer loop
OuterStep(r) ==
    /\ pc[r] = "outer"
    /\ pc'[r] # "outer" \/ socks'[r] # socks[r] \/ out'[r] # out[r]

\* C16: every outer-loop iteration of either role goes on to its accept or
\* connect, with the same socket and session state whether the
\* configuration read returned a configuration or None; None costs one
\* warning line and nothing else.
C16_AttemptWithOrWithoutConfig ==
    [][\A r \in active :
        OuterStep(r) =>
            /\ pc'[r] = "establish"
            /\ clock'[r] = 0
            /\ cur'[r] \in 1..StackSockets
            /\ socks'[r] = [AllFree EXCEPT ![cur'[r]] =
                               [st |-> "pending", timeout |-> 0]]
            /\ conn'[r] = "idle"
            /\ trips'[r] = 0
            /\ buf'[r] = buf[r]
            /\ wreq'[r] = wreq[r]
            /\ out'[r] =
                  (IF configUp[r]
                   THEN <<L("Server Address"), L("Gateway"), L("DNS Server")>>
                   ELSE <<L("Unable to Get the Adrress")>>)
                  \o <<L(IF r = "responder" THEN "Listening on TCP"
                                            ELSE "Connecting to the server")>>]_vars

\* the accept of an iteration that read None has been met by a peer
C16_Witness ==
    /\ "responder" \in active
    /\ pc["responder"] = "establish"
    /\ conn["responder"] = "up"
    /\ out["responder"] = <<L("Unable to Get the Adrress"), L("Listening on TCP")>>

(***************************************************************************)
(* The responder's indicator.                                              *)
(***************************************************************************)
\* C17: on the responder every accept timeout and every accept error leaves
\* the indicator at the opposite of what it showed before the failure.
C17_AcceptFailureToggles ==
    [][("responder" \in active /\ pc["responder"] = "establish"
            /\ pc'["responder"] = "outer")
        => led' = ~led]_vars

(***************************************************************************)
(* The initiator's exchange.                                               *)
(***************************************************************************)
\* the initiator
I == "initiator"

\* C18: within an initiator Session the first operation is a write of
\* "Hello"; a read is awaited only after a write that succeeded; the next
\* write of "Hello" is issued only after a read of at least one byte and a
\* full wait of 1000 ms; a failed write ends the Session with no read.
C18_WriteReadAlternate ==
    [][("initiator" \in active) =>
        /\ (pc[I] = "establish" /\ pc'[I] # "establish")
              => /\ pc'[I] \in {"write", "outer", "backoff"}
                 /\ pc'[I] = "write" => wreq'[I] = <<72, 101, 108, 108, 111>>
        /\ (pc[I] = "write" /\ pc'[I] # "write")
              => \/ pc'[I] = "read" /\ out'[I] = <<>> /\ cur'[I] = cur[I]
                 \/ /\ pc'[I] = "outer"
                    /\ out'[I] = <<L("Write Error")>>
                    /\ socks'[I] = AllFree
        /\ (pc'[I] = "read" /\ pc[I] # "read") => pc[I] = "write"
        /\ (pc[I] = "read" /\ pc'[I] # "read")
              => /\ pc'[I] \in {"sleep", "outer", "crashed"}
                 /\ pc'[I] = "sleep" => (ReadStep(I) /\ clock'[I] = 0)
        /\ (pc'[I] = "sleep" /\ pc[I] # "sleep") => pc[I] = "read"
        /\ (pc[I] = "sleep" /\ pc'[I] # "sleep")
              => /\ clock[I] = 1000
                 /\ pc'[I] = "write"
                 /\ wreq'[I] = <<72, 101, 108, 108, 111>>
        /\ (pc'[I] = "write" /\ pc[I] # "write")
              => pc[I] \in {"establish", "sleep"}]_vars

\* the second write of a Session is pending: a reply has been read and the
\* 1000 ms have passed
C18_Witness ==
    /\ "initiator" \in active
    /\ pc["initiator"] = "write"
    /\ wreq["initiator"] = <<72, 101, 108, 108, 111>>
    /\ trips["initiator"] >= 1

(***************************************************************************)
(* Reuse of the buffers across Sessions.                                   *)
(***************************************************************************)
\* C19: the socket built at the head of the outer loop has nothing to read
\* and no write pending, whatever the last Session left behind; and what a
\* node logs or echoes after a read is the bytes that read returned, not
\* the rest of the scratch buffer.
C19_NoResidue ==
    /\ [][\A r \in active : OuterStep(r) => inb'[r] = <<>>]_vars
    /\ [](\A r \in active : pc[r] \in {"outer", "establish"} => wreq[r] = <<>>)
    /\ [][\A r \in active :
            (ReadStep(r) /\ pc'[r] # "crashed")
                => /\ out'[r] = <<LT(IF r = "responder" THEN "rxd" ELSE "println",
                                     ReadChunk(r))>>
                   /\ r = "responder" => wreq'[r] = ReadChunk(r)
                   /\ \A j \in 1..BufLen :
                         j > Len(ReadChunk(r)) => buf'[r][j] = buf[r][j]]_vars

\* the first read of an initiator Session returned "H" and logged "H" while
\* the scratch buffer still holds a byte read in an earlier Session
C19_Witness ==
    /\ "initiator" \in active
    /\ pc["initiator"] = "sleep"
    /\ trips["initiator"] = 1
    /\ out["initiator"] = <<LT("println", <<72>>)>>
    /\ buf["initiator"][2] = 169

(***************************************************************************)
(* The sockets of the stack.                                               *)
(***************************************************************************)
\* the slots of r's stack that hold a socket
Registered(r) == {i \in 1..StackSockets : socks[r][i].st # "free"}

\* C20: every step that takes the session task back to the head of the
\* outer loop leaves no socket in the stack, a timed-out accept or connect
\* included; the next socket is built into an empty stack, which is never
\* found full; so a stack holds one socket at most, within its 3 slots.
C20_SocketReleasedBeforeNext ==
    /\ [][\A r \in active :
            (pc[r] \notin {"outer", "dhcp"} /\ pc'[r] = "outer")
                => (Registered(r)' = {} /\ cur'[r] = 0)]_vars
    /\ [][\A r \in active :
            OuterStep(r)
                => /\ Registered(r) = {}
                   /\ Cardinality(Registered(r)') = 1
                   /\ out'[r] # <<L("panic")>>]_vars
    /\ [](\A r \in active :
            /\ Cardinality(Registered(r)) <= 1
            /\ Cardinality(Registered(r)) <= 3)

\* an accept or connect has timed out and its socket has left the stack
C20_Witness ==
    \E r \in active :
        /\ pc[r] = "outer"
        /\ out[r] = <<L("No Connection after 5s")>>
        /\ Registered(r) = {}
====
